---- MODULE Spec2Model ----
(***************************************************************************)
(* Model of sort_animal_day.py: the batch driver main(), the processor    *)
(* CustomSorting with its run() pipeline, the TemporaryDirectory scope,    *)
(* the external masking call _mask_out_artifacts, and the job queue and    *)
(* result cache of the processor framework that main() and                 *)
(* spike_sorting() drive.                                                  *)
(*                                                                         *)
(* Specifications:                                                         *)
(*   Spec      one run of main() over a dataset (epochs of ntrodes)        *)
(*   FairSpec  the same over a fresh cache, with weak fairness             *)
(*   SpecExec  two consecutive CustomSorting.execute calls with arbitrary  *)
(*             parameters (the processor used directly, no queue)          *)
(***************************************************************************)
EXTENDS Integers, Sequences, FiniteSets, TLC

VARIABLES
    main_pc,    \* position of the driver
    args,       \* parsed command line: num_jobs, force_run, test
    dataset,    \* the input directory: epochs, each a list of ntrode files
    epochs,     \* main's local: the loaded epochs (snapshot references)
    cursor,     \* main's loops: index of the next (epoch, ntrode) to submit
    jobs,       \* the jobs created by CustomSorting.execute, in submission order
    fs_tmp,     \* the temporary directories that exist on the filesystem
    ntmp,       \* number of mkdtemp calls so far (names are never reused)
    cache,      \* the framework's result cache: a set of [key, artifact]
    reported    \* what JQ.wait() reported: the set of failed jobs

vars == <<main_pc, args, dataset, epochs, cursor, jobs, fs_tmp, ntmp, cache, reported>>

----------------------------------------------------------------------------
(* Bounds *)

MaxUnits == 2       \* ntrode files in the dataset
MaxNumJobs == 2     \* largest --num_jobs
MaxDiff == 1        \* fields in which the second execute call differs from the first

----------------------------------------------------------------------------
(* Paths.  Every path is a record of the same shape.                      *)

Path(root, e, n, file) == [root |-> root, e |-> e, n |-> n, file |-> file]

Contents == {1, 2}

\* mt.createSnapshot: the reference is derived from the content of the file,
\* not from its location
createSnapshot(content) == Path("sha1", 0, content, "raw.mda")

\* main, line 60
firings_out_path(e, n) == Path("output", e, n, "firings.mda")

----------------------------------------------------------------------------
(* CustomSorting: identity and declared parameters *)

NAME == "CustomSorting"

VERSION == "0.1.4"

\* the configuration attributes of the class, which execute takes as keyword
\* arguments and run() may read as self.<name>
ConfigFields ==
    {"samplerate", "mask_out_artifacts", "freq_min", "freq_max", "whiten",
     "detect_sign", "adjacency_radius", "clip_size", "detect_threshold",
     "detect_interval", "noise_overlap_threshold"}

\* the attributes declared as mlpr.*Parameter, which the framework puts in the
\* cache key: all of them
ParametersDropOne == ConfigFields \ {"noise_overlap_threshold"}

Parameters == ConfigFields

\* defaults of the optional parameters (noise_overlap_threshold in hundredths)
ParameterDefaults ==
    [mask_out_artifacts |-> FALSE, freq_min |-> 300, freq_max |-> 6000,
     whiten |-> TRUE, clip_size |-> 50, detect_threshold |-> 3,
     detect_interval |-> 10, noise_overlap_threshold |-> 15]

\* the keyword arguments spike_sorting passes
spike_sorting_kwargs ==
    [mask_out_artifacts |-> TRUE, freq_min |-> 300, freq_max |-> 6000,
     whiten |-> TRUE, samplerate |-> 30000, detect_sign |-> -1,
     adjacency_radius |-> 50]

\* the parameter values of a call: the arguments given, defaults for the rest
Configuration(kwargs) ==
    [f \in ConfigFields |->
        IF f \in DOMAIN kwargs THEN kwargs[f] ELSE ParameterDefaults[f]]

\* what an execute call fixes: the parameters and the processor version
Fields == ConfigFields \cup {"VERSION"}

Invocation(kwargs, version) ==
    [f \in Fields |-> IF f = "VERSION" THEN version ELSE Configuration(kwargs)[f]]

\* the values the model lets each field take
Values ==
    [samplerate |-> {30000, 20000}, mask_out_artifacts |-> {TRUE, FALSE},
     freq_min |-> {300, 0}, freq_max |-> {6000, 0}, whiten |-> {TRUE, FALSE},
     detect_sign |-> {-1, 1}, adjacency_radius |-> {50, -1},
     clip_size |-> {50, 100}, detect_threshold |-> {3, 4},
     detect_interval |-> {10, 20}, noise_overlap_threshold |-> {15, 30},
     VERSION |-> {VERSION, "0.1.5"}]

Other(f, v) == CHOOSE x \in Values[f] : x # v

\* the invocations that differ from inv in the fields S
Changed(inv, S) == [f \in Fields |-> IF f \in S THEN Other(f, inv[f]) ELSE inv[f]]

Near(inv, k) ==
    {Changed(inv, S) : S \in {T \in SUBSET Fields : Cardinality(T) <= k}}

\* the fields that decide which stages run and what the filter gets
ShapeFields == {"mask_out_artifacts", "whiten", "freq_min", "freq_max"}

FirstInvocations ==
    {Changed(Invocation(spike_sorting_kwargs, VERSION), S) : S \in SUBSET ShapeFields}

----------------------------------------------------------------------------
(* Errors and results *)

\* an error as its receiver can read it: the exception class, its message and
\* the exit statuses it carries (raise Exception('...') carries none)
NoExc == [kind |-> "none", msg |-> "", status |-> {}]

Exc(msg) == [kind |-> "Exception", msg |-> msg, status |-> {}]

NoArtifact == [path |-> Path("", 0, 0, ""), producer |-> 0]

NoResult == [tag |-> "none", artifact |-> NoArtifact, error |-> NoExc]

Succeeded(a) == [tag |-> "Succeeded", artifact |-> a, error |-> NoExc]

CacheHit(a) == [tag |-> "CacheHit", artifact |-> a, error |-> NoExc]

Failed(e) == [tag |-> "Failed", artifact |-> NoArtifact, error |-> e]

\* exit statuses of the external masking process
RetCodes == {0, 1, 2}

----------------------------------------------------------------------------
(* The framework's cache: keyed by processor name and version, the declared *)
(* parameters and the identity of the input.                               *)

CacheKey(j) ==
    [name |-> NAME, version |-> j.version,
     params |-> [f \in Parameters |-> j.cfg[f]],
     input |-> j.recording_file_in]

Cached(key) == {c \in cache : c.key = key}

\* a completed run supersedes the entry of its key
CacheStore(key, a) == {c \in cache : c.key # key} \cup {[key |-> key, artifact |-> a]}

----------------------------------------------------------------------------
(* Jobs *)

NewJob(inv, input, out, force) ==
    [cfg |-> [f \in ConfigFields |-> inv[f]], version |-> inv["VERSION"],
     recording_file_in |-> input, firings_out |-> out, force_run |-> force,
     pc |-> "queued", tmpdir |-> 0, rec_fname |-> Path("", 0, 0, ""),
     retcode |-> -1, exc |-> NoExc, trace |-> <<>>, result |-> NoResult]

JobIds == 1..Len(jobs)

\* positions inside CustomSorting.run
InRun == {"enter", "mask", "load", "filter", "whiten", "sort", "write", "exit"}

Running == {i \in JobIds : jobs[i].pc \in InRun}

Terminal(i) == jobs[i].pc = "done"

\* job_handler = mlpr.ParallelJobHandler(int(args.num_jobs))
PoolSizeOneMore == args.num_jobs + 1

PoolSize == args.num_jobs

Set(i, j) == jobs' = [jobs EXCEPT ![i] = j]

Call(j, entry) == [j EXCEPT !.trace = Append(@, entry)]

Raise(j, msg) == [j EXCEPT !.exc = Exc(msg), !.pc = "exit"]

----------------------------------------------------------------------------
(* CustomSorting.run, one action per statement that calls out *)

NoPath == Path("", 0, 0, "")

NoParams == [none |-> 0]

Entry(stage, input, output, params) ==
    [stage |-> stage, input |-> input, output |-> output, params |-> params]

\* rec_fname = tmpdir + '/raw.mda'
masked_fname(tmpdir) == Path("tmp", 0, tmpdir, "raw.mda")

\* _mask_out_artifacts(timeseries_in, timeseries_out): runs the shell script,
\* waits for it, raises when the exit status rc is not zero
_mask_out_artifacts(j, rc) ==
    LET called == Call([j EXCEPT !.retcode = rc],
                       Entry("mask", j.recording_file_in, masked_fname(j.tmpdir), NoParams))
    IN  IF rc # 0
        THEN Raise(called, "problem running ms3.mask_out_artifacts")
        ELSE [called EXCEPT !.rec_fname = masked_fname(j.tmpdir), !.pc = "load"]

\* TemporaryDirectory.__enter__: tempfile.mkdtemp() makes a directory that did
\* not exist; when it cannot, the with statement raises before the body
TemporaryDirectory_enter(i) ==
    /\ jobs[i].pc = "enter"
    /\ \E ok \in BOOLEAN :
        IF ok
        THEN /\ ntmp' = ntmp + 1
             /\ fs_tmp' = fs_tmp \cup {ntmp + 1}
             /\ Set(i, [jobs[i] EXCEPT !.tmpdir = ntmp + 1, !.pc = "mask"])
        ELSE /\ Set(i, [jobs[i] EXCEPT !.pc = "done",
                                       !.exc = Exc("mkdtemp"),
                                       !.result = Failed(Exc("mkdtemp"))])
             /\ UNCHANGED <<ntmp, fs_tmp>>
    /\ UNCHANGED <<main_pc, args, dataset, epochs, cursor, cache, reported>>

\* if self.mask_out_artifacts: ... else: rec_fname = self.recording_file_in
MaskStage(i) ==
    /\ jobs[i].pc = "mask"
    /\ IF jobs[i].cfg.mask_out_artifacts
       THEN \E rc \in RetCodes : Set(i, _mask_out_artifacts(jobs[i], rc))
       ELSE Set(i, [jobs[i] EXCEPT !.rec_fname = jobs[i].recording_file_in,
                                   !.pc = "load"])
    /\ UNCHANGED <<main_pc, args, dataset, epochs, cursor, fs_tmp, ntmp, cache, reported>>

\* se.NumpyRecordingExtractor(X, samplerate=30000, geom=geom): the literal,
\* not self.samplerate
configured_samplerate(j) == j.cfg.samplerate

recording_samplerate(j) == 30000

\* X = sf.mdaio.readmda(rec_fname); recording = se.NumpyRecordingExtractor(...)
LoadStage(i) ==
    /\ jobs[i].pc = "load"
    /\ LET called == Call(jobs[i], Entry("load", jobs[i].rec_fname, NoPath,
                             [samplerate |-> recording_samplerate(jobs[i])]))
       IN  \E ok \in BOOLEAN :
             Set(i, IF ok THEN [called EXCEPT !.pc = "filter"]
                          ELSE Raise(called, "readmda"))
    /\ UNCHANGED <<main_pc, args, dataset, epochs, cursor, fs_tmp, ntmp, cache, reported>>

\* recording = st.preprocessing.bandpass_filter(recording, freq_min, freq_max)
FilterStage(i) ==
    /\ jobs[i].pc = "filter"
    /\ LET called == Call(jobs[i], Entry("filter", NoPath, NoPath,
                             [freq_min |-> jobs[i].cfg.freq_min,
                              freq_max |-> jobs[i].cfg.freq_max]))
       IN  \E ok \in BOOLEAN :
             Set(i, IF ok THEN [called EXCEPT !.pc = "whiten"]
                          ELSE Raise(called, "bandpass_filter"))
    /\ UNCHANGED <<main_pc, args, dataset, epochs, cursor, fs_tmp, ntmp, cache, reported>>

\* if self.whiten:
whiten_always(j) == TRUE

whiten_enabled(j) == j.cfg.whiten

\* if self.whiten: recording = st.preprocessing.whiten(recording=recording)
WhitenStage(i) ==
    /\ jobs[i].pc = "whiten"
    /\ IF whiten_enabled(jobs[i])
       THEN LET called == Call(jobs[i], Entry("whiten", NoPath, NoPath, NoParams))
            IN  \E ok \in BOOLEAN :
                  Set(i, IF ok THEN [called EXCEPT !.pc = "sort"]
                               ELSE Raise(called, "whiten"))
       ELSE Set(i, [jobs[i] EXCEPT !.pc = "sort"])
    /\ UNCHANGED <<main_pc, args, dataset, epochs, cursor, fs_tmp, ntmp, cache, reported>>

\* num_workers = 2
num_workers == 2

\* sorting = ml_ms4alg.mountainsort4(recording, detect_sign, ..., num_workers)
SortStage(i) ==
    /\ jobs[i].pc = "sort"
    /\ LET called == Call(jobs[i], Entry("sort", NoPath, NoPath,
                             [detect_sign |-> jobs[i].cfg.detect_sign,
                              adjacency_radius |-> jobs[i].cfg.adjacency_radius,
                              clip_size |-> jobs[i].cfg.clip_size,
                              detect_threshold |-> jobs[i].cfg.detect_threshold,
                              detect_interval |-> jobs[i].cfg.detect_interval,
                              num_workers |-> num_workers]))
       IN  \E ok \in BOOLEAN :
             Set(i, IF ok THEN [called EXCEPT !.pc = "write"]
                          ELSE Raise(called, "mountainsort4"))
    /\ UNCHANGED <<main_pc, args, dataset, epochs, cursor, fs_tmp, ntmp, cache, reported>>

\* sf.SFMdaSortingExtractor.write_sorting(sorting, save_path=self.firings_out)
WriteStage(i) ==
    /\ jobs[i].pc = "write"
    /\ LET called == Call(jobs[i], Entry("write", NoPath, jobs[i].firings_out, NoParams))
       IN  \E ok \in BOOLEAN :
             Set(i, IF ok THEN [called EXCEPT !.pc = "exit"]
                          ELSE Raise(called, "write_sorting"))
    /\ UNCHANGED <<main_pc, args, dataset, epochs, cursor, fs_tmp, ntmp, cache, reported>>

\* TemporaryDirectory.__exit__: shutil.rmtree(self._path), whatever the
\* exception state
rmtree_on_success_only(fs, path, exc) == IF exc = NoExc THEN fs \ {path} ELSE fs

TemporaryDirectory_exit(fs, path, exc) == fs \ {path}

\* __exit__ returns None, so the exception raised in the body is re-raised
exit_swallows(exc) == NoExc

exit_propagates(exc) == exc

\* the end of the with statement and the return of run() to the framework,
\* which records the result and, on success, the cache entry in one step
ExitScope(i) ==
    /\ jobs[i].pc = "exit"
    /\ fs_tmp' = TemporaryDirectory_exit(fs_tmp, jobs[i].tmpdir, jobs[i].exc)
    /\ LET raised == exit_propagates(jobs[i].exc)
           made == [path |-> jobs[i].firings_out, producer |-> i]
       IN  IF raised = NoExc
           THEN /\ Set(i, [jobs[i] EXCEPT !.pc = "done", !.result = Succeeded(made)])
                /\ cache' = CacheStore(CacheKey(jobs[i]), made)
           ELSE /\ Set(i, [jobs[i] EXCEPT !.pc = "done", !.result = Failed(raised)])
                /\ UNCHANGED cache
    /\ UNCHANGED <<main_pc, args, dataset, epochs, cursor, ntmp, reported>>

----------------------------------------------------------------------------
(* The framework: CustomSorting.execute and the job queue *)

\* _force_run bypasses the lookup
force_always(j) == TRUE

bypass_cache(j) == j.force_run

\* a failed job cancels nothing: a queued job may start whatever became of
\* the others
no_failure_so_far(i) == \A k \in JobIds : jobs[k].result.tag # "Failed"

may_start(i) == TRUE

\* a worker takes the oldest queued job when the pool has a free slot; a job
\* whose key is cached is answered from the cache without entering run()
StartJob(i) ==
    /\ jobs[i].pc = "queued"
    /\ \A k \in 1..(i - 1) : jobs[k].pc # "queued"
    /\ may_start(i)
    /\ LET hit == Cached(CacheKey(jobs[i]))
       IN  IF ~bypass_cache(jobs[i]) /\ hit # {}
           THEN Set(i, [jobs[i] EXCEPT !.pc = "done",
                           !.result = CacheHit((CHOOSE c \in hit : TRUE).artifact)])
           ELSE /\ Cardinality(Running) < PoolSize
                /\ Set(i, [jobs[i] EXCEPT !.pc = "enter"])
    /\ UNCHANGED <<main_pc, args, dataset, epochs, cursor, fs_tmp, ntmp, cache, reported>>

JobStep(i) ==
    \/ StartJob(i)
    \/ TemporaryDirectory_enter(i)
    \/ MaskStage(i)
    \/ LoadStage(i)
    \/ FilterStage(i)
    \/ WhitenStage(i)
    \/ SortStage(i)
    \/ WriteStage(i)
    \/ ExitScope(i)

----------------------------------------------------------------------------
(* SpecExec: two consecutive calls of CustomSorting.execute *)

\* spike_sorting: CustomSorting.execute(..., _force_run=args.force_run),
\* here with any parameters, input and force flag
execute(inv, input, force) ==
    /\ jobs' = Append(jobs, NewJob(inv, input, firings_out_path(1, 1), force))
    /\ UNCHANGED <<args, dataset, epochs, cursor, fs_tmp, ntmp, cache, reported>>

FirstCall ==
    /\ main_pc = "call1"
    /\ \E inv \in FirstInvocations, force \in BOOLEAN :
          execute(inv, createSnapshot(1), force)
    /\ main_pc' = "call2"

SecondCall ==
    /\ main_pc = "call2"
    /\ Terminal(1)
    /\ \E inv \in Near([f \in Fields |-> IF f = "VERSION" THEN jobs[1].version
                                          ELSE jobs[1].cfg[f]], MaxDiff),
          c \in Contents, force \in BOOLEAN :
          execute(inv, createSnapshot(c), force)
    /\ main_pc' = "finished"

InitExec ==
    /\ main_pc = "call1"
    /\ args = [num_jobs |-> 1, force_run |-> FALSE, test |-> FALSE]
    /\ dataset = <<>>
    /\ epochs = <<>>
    /\ cursor = 1
    /\ jobs = <<>>
    /\ fs_tmp = {}
    /\ ntmp = 0
    /\ cache = {}
    /\ reported = {}

NextExec ==
    \/ FirstCall
    \/ SecondCall
    \/ \E i \in JobIds : JobStep(i)

SpecExec == InitExec /\ [][NextExec]_vars

----------------------------------------------------------------------------
(* Spec: main() *)

NtrodeFiles == [readable : BOOLEAN, content : Contents]

SeqsUpTo(S, n) == UNION {[1..k -> S] : k \in 0..n}

RECURSIVE Total(_)
Total(d) == IF d = <<>> THEN 0 ELSE Len(Head(d)) + Total(Tail(d))

\* input directories: at most MaxUnits epochs holding at most MaxUnits ntrode
\* files between them, listed in sorted order
Datasets ==
    {d \in SeqsUpTo(SeqsUpTo(NtrodeFiles, MaxUnits), MaxUnits) : Total(d) <= MaxUnits}

\* names[0:2] under --test
Truncate(names, test) == IF test THEN SubSeq(names, 1, IF Len(names) < 2 THEN Len(names) ELSE 2) ELSE names

\* load_ntrode: recording_file = mt.createSnapshot(path=path)
load_ntrode(file) == [recording_file |-> createSnapshot(file.content)]

\* load_epoch: the ntrodes of one epoch directory
load_epoch(epoch, test) ==
    LET names == Truncate(epoch, test)
    IN  [n \in 1..Len(names) |-> load_ntrode(names[n])]

\* the files createSnapshot is called on
Visited(d, test) ==
    LET names == Truncate(d, test)
    IN  UNION {{Truncate(names[e], test)[n] : n \in 1..Len(Truncate(names[e], test))}
               : e \in 1..Len(names)}

\* main, lines 39-45: an exception of createSnapshot leaves load_ntrode,
\* load_epoch and main; nothing catches it
LoadEpochs ==
    /\ main_pc = "load"
    /\ IF \E f \in Visited(dataset, args.test) : ~f.readable
       THEN /\ main_pc' = "aborted"
            /\ UNCHANGED epochs
       ELSE /\ main_pc' = "submit"
            /\ epochs' = LET names == Truncate(dataset, args.test)
                         IN  [e \in 1..Len(names) |-> load_epoch(names[e], args.test)]
    /\ UNCHANGED <<args, dataset, cursor, jobs, fs_tmp, ntmp, cache, reported>>

RECURSIVE Flatten(_, _)
\* the (epoch, ntrode) pairs in the order of main's two loops
Flatten(eps, e) ==
    IF e > Len(eps) THEN <<>>
    ELSE [n \in 1..Len(eps[e]) |-> <<e, n>>] \o Flatten(eps, e + 1)

Units == Flatten(epochs, 1)

\* spike_sorting(recording_file_in, firings_out, args)
spike_sorting(recording_file_in, firings_out) ==
    jobs' = Append(jobs, NewJob(Invocation(spike_sorting_kwargs, VERSION),
                                recording_file_in, firings_out, args.force_run))

\* main, lines 54-67: one pass of the inner loop
Submit ==
    /\ main_pc = "submit"
    /\ cursor <= Len(Units)
    /\ LET e == Units[cursor][1]
           n == Units[cursor][2]
       IN  spike_sorting(epochs[e][n].recording_file, firings_out_path(e, n))
    /\ cursor' = cursor + 1
    /\ UNCHANGED <<main_pc, args, dataset, epochs, fs_tmp, ntmp, cache, reported>>

\* main, line 68: the loops are over, main calls JQ.wait()
EnterWait ==
    /\ main_pc = "submit"
    /\ cursor > Len(Units)
    /\ main_pc' = "wait"
    /\ UNCHANGED <<args, dataset, epochs, cursor, jobs, fs_tmp, ntmp, cache, reported>>

\* JQ.wait() returns once every job of the queue has a result
Wait ==
    /\ main_pc = "wait"
    /\ \A i \in JobIds : Terminal(i)
    /\ reported' = {i \in JobIds : jobs[i].result.tag = "Failed"}
    /\ main_pc' = "done"
    /\ UNCHANGED <<args, dataset, epochs, cursor, jobs, fs_tmp, ntmp, cache>>

\* entries left in the cache by earlier runs of main over the same content
EarlierArtifact == [path |-> Path("output", 0, 0, "firings.mda"), producer |-> 0]

EarlierEntries ==
    {[key |-> [name |-> NAME, version |-> VERSION,
               params |-> [f \in Parameters |-> Configuration(spike_sorting_kwargs)[f]],
               input |-> createSnapshot(c)],
      artifact |-> EarlierArtifact] : c \in Contents}

Init ==
    /\ main_pc = "load"
    /\ args \in [num_jobs : 1..MaxNumJobs, force_run : BOOLEAN, test : BOOLEAN]
    /\ dataset \in Datasets
    /\ epochs = <<>>
    /\ cursor = 1
    /\ jobs = <<>>
    /\ fs_tmp = {}
    /\ ntmp = 0
    /\ cache \in SUBSET EarlierEntries
    /\ reported = {}

Next ==
    \/ LoadEpochs
    \/ Submit
    \/ EnterWait
    \/ Wait
    \/ \E i \in JobIds : JobStep(i)

Spec == Init /\ [][Next]_vars

\* main over a fresh cache, without --test
InitFair == Init /\ cache = {} /\ ~args.test

\* every worker that can take a step eventually takes it, and main goes on:
\* workers are processes of their own and main blocks only in JQ.wait()
FairSpec == InitFair /\ [][Next]_vars /\ WF_vars(Next)

----------------------------------------------------------------------------
(* Properties *)

\* job i entered CustomSorting.run (it was not answered from the cache)
Executed(i) ==
    \/ jobs[i].pc \in InRun
    \/ Terminal(i) /\ jobs[i].result.tag # "CacheHit"

StageNames(trace) == [k \in 1..Len(trace) |-> trace[k].stage]

IsPrefix(a, b) == Len(a) <= Len(b) /\ \A k \in 1..Len(a) : a[k] = b[k]

TwoCalls == Len(jobs) = 2

SameInput == jobs[1].recording_file_in = jobs[2].recording_file_in

SameConfiguration == jobs[1].cfg = jobs[2].cfg /\ jobs[1].version = jobs[2].version

\* the configuration fields in which the two calls differ
Differing == {f \in ConfigFields : jobs[1].cfg[f] # jobs[2].cfg[f]}

C2_ConcurrencyBound == Cardinality(Running) <= args.num_jobs

C2_Witness ==
    /\ Cardinality(Running) = args.num_jobs
    /\ \E i \in JobIds : jobs[i].pc = "queued"

\* C3: a second job on the same input whose configuration or processor
\* version differs from the first in at least one field, run without
\* force_run, is never answered from the cache: it executes the pipeline.
C3_KeySensitivity ==
    (TwoCalls /\ SameInput /\ ~SameConfiguration
        /\ ~jobs[2].force_run /\ jobs[2].pc # "queued") => Executed(2)

C3_Witness ==
    /\ TwoCalls /\ SameInput /\ ~SameConfiguration /\ ~jobs[2].force_run
    /\ jobs[1].result.tag = "Succeeded"
    /\ jobs[2].result.tag = "Succeeded"

\* what main learns when JQ.wait() has returned
WaitReturned ==
    (main_pc = "done") =>
        /\ Len(jobs) = Len(Units)
        /\ \A i \in JobIds : Terminal(i)
        /\ reported = {i \in JobIds : jobs[i].result.tag = "Failed"}

AfterMask == {"load", "filter", "whiten", "sort", "write"}

\* C5 (as stated): when masking is enabled and the masking process ends with
\* a non-zero exit status s, none of the later stages runs and the job's
\* result is Failed with an error that names the masking command and carries s.
C5_AsStated ==
    \A i \in JobIds :
        (jobs[i].cfg.mask_out_artifacts /\ jobs[i].retcode > 0 /\ Terminal(i)) =>
            /\ \A k \in 1..Len(jobs[i].trace) : jobs[i].trace[k].stage \notin AfterMask
            /\ jobs[i].result.tag = "Failed"
            /\ jobs[i].result.error.msg = "problem running ms3.mask_out_artifacts"
            /\ jobs[i].result.error.status = {jobs[i].retcode}

\* C6: once a job is terminal the temporary directory its run allocated no
\* longer exists, whether run returned or a stage raised, and what was raised
\* inside the scope is the job's failure.
C6_WorkspaceRemoved ==
    \A i \in JobIds :
        (Terminal(i) /\ jobs[i].tmpdir # 0) =>
            /\ jobs[i].tmpdir \notin fs_tmp
            /\ (jobs[i].exc # NoExc) => (jobs[i].result = Failed(jobs[i].exc))
            /\ (jobs[i].exc = NoExc) => (jobs[i].result.tag = "Succeeded")

C6_Witness ==
    \E i \in JobIds :
        /\ Terminal(i)
        /\ jobs[i].tmpdir # 0
        /\ jobs[i].exc = Exc("mountainsort4")

\* C7 (as stated): when main has ended, every readable unit of the dataset
\* was submitted and has its terminal result, and every unit whose snapshot
\* failed is reported as a Failed job.
C7_AsStated ==
    (main_pc \in {"done", "aborted"}) =>
        LET files == Visited(dataset, args.test)
        IN  /\ Cardinality({f \in files : f.readable}) <=
                  Cardinality({i \in JobIds : Terminal(i)})
            /\ (\E f \in files : ~f.readable) =>
                  (\E i \in JobIds : jobs[i].result.tag = "Failed")

\* C8 (as stated): with freq_min = 0 and freq_max = 0 the band-pass filter is
\* not invoked, and the job does not fail for that configuration.
C8_AsStated ==
    \A i \in JobIds :
        (jobs[i].cfg.freq_min = 0 /\ jobs[i].cfg.freq_max = 0) =>
            \A k \in 1..Len(jobs[i].trace) : jobs[i].trace[k].stage # "filter"

\* the stage sequence a configuration asks for
ExpectedStages(cfg) ==
    (IF cfg.mask_out_artifacts THEN <<"mask">> ELSE <<>>)
        \o <<"load", "filter">>
        \o (IF cfg.whiten THEN <<"whiten">> ELSE <<>>)
        \o <<"sort", "write">>

\* the stage whose failure raises the message
RaisedBy(msg) ==
    CASE msg = "problem running ms3.mask_out_artifacts" -> "mask"
      [] msg = "readmda" -> "load"
      [] msg = "bandpass_filter" -> "filter"
      [] msg = "whiten" -> "whiten"
      [] msg = "mountainsort4" -> "sort"
      [] msg = "write_sorting" -> "write"
      [] OTHER -> "none"

\* C9: the stages of a run occur in the order mask, load, filter, whiten,
\* sort, write, mask iff mask_out_artifacts and whiten iff whiten; load reads
\* the masked file of the job's temporary directory iff masking ran and the
\* original input otherwise; a stage that raises is the last one invoked; the
\* write goes to the caller's firings_out and a run that succeeded invoked
\* every stage of the sequence, the write last.
C9_StageOrder ==
    \A i \in JobIds :
        LET j == jobs[i]
            names == StageNames(j.trace)
        IN  /\ IsPrefix(names, ExpectedStages(j.cfg))
            /\ \A k \in 1..Len(j.trace) :
                  /\ (names[k] = "load") =>
                        j.trace[k].input =
                            (IF j.cfg.mask_out_artifacts THEN masked_fname(j.tmpdir)
                                                         ELSE j.recording_file_in)
                  /\ (names[k] = "mask") =>
                        /\ j.trace[k].input = j.recording_file_in
                        /\ j.trace[k].output = masked_fname(j.tmpdir)
                  /\ (names[k] = "write") => (j.trace[k].output = j.firings_out)
            /\ (j.exc # NoExc /\ j.tmpdir # 0) =>
                  (names # <<>> /\ names[Len(names)] = RaisedBy(j.exc.msg))
            /\ (j.result.tag = "Succeeded") => (names = ExpectedStages(j.cfg))

C9_Witness ==
    \E i \in JobIds :
        /\ jobs[i].result.tag = "Succeeded"
        /\ jobs[i].cfg.mask_out_artifacts
        /\ ~jobs[i].cfg.whiten

\* the fields run() never reads
Unread == {"samplerate", "noise_overlap_threshold"}

DifferOnlyInUnread ==
    /\ jobs[1].version = jobs[2].version
    /\ Differing # {}
    /\ Differing \subseteq Unread

\* an invocation with its paths taken relative to the run's own temporary
\* directory (the directory is named 0)
Relative(entry) ==
    [entry EXCEPT !.input = IF @.root = "tmp" THEN [@ EXCEPT !.n = 0] ELSE @,
                  !.output = IF @.root = "tmp" THEN [@ EXCEPT !.n = 0] ELSE @]

RelativeTrace(trace) == [k \in 1..Len(trace) |-> Relative(trace[k])]

====
